---- MODULE Spec2Model ----
(***************************************************************************)
(* Model of the aubo-rs ZygiskNext module (src/src/cpp/aubo_module.cpp):   *)
(* the lifecycle callback onModuleLoaded with the module loader            *)
(* (load_rust_library, load_library_via_memfd), the hook installer         *)
(* (install_network_hooks) and the three interception handlers             *)
(* (my_connect, my_gethostbyname, my_getaddrinfo).                         *)
(*                                                                         *)
(* Every external call (libc, the dynamic linker, the ZygiskNext API       *)
(* table, the oracle library) is one step whose outcome is chosen          *)
(* nondeterministically.  A handler runs only through a hook that          *)
(* inlineHook has installed for its symbol.                                *)
(***************************************************************************)
EXTENDS Integers, Sequences, FiniteSets, TLC

\* ---------------------------------------------------------------- bounds
\* Largest st_size fstat reports (bytes, scaled).
MaxFileSize == 3
\* sizeof(buffer) of the copy loop, scaled from 8192 to keep the loop small.
BufferSize == 2

\* ------------------------------------------------------ program constants
\* Number of entries of lib_paths[].
NumPaths == 4
\* ZN_SUCCESS / ZN_FAILED of the ZygiskNext API.
ZN_SUCCESS == 0
ZN_FAILED == 1
\* Resolution-failure code of getaddrinfo (<netdb.h>, bionic value).
EAI_NONAME == 8

\* nullptr, and the value of a bound function pointer.
NULL == "NULL"
BOUND == "fn"

\* The hooked libc entry points.
SymbolSet == {"connect", "gethostbyname", "getaddrinfo"}
\* The three entry points of the oracle library.
OracleSymbols == {"aubo_initialize", "aubo_shutdown", "aubo_should_block_request"}

VARIABLES
    pc,                         \* position of the lifecycle thread
    api_table,                  \* TRUE once the API table was copied
    rust_lib_handle,            \* handle of the oracle library
    aubo_initialize,            \* NULL or BOUND
    aubo_shutdown,              \* NULL or BOUND
    aubo_should_block_request,  \* NULL or BOUND
    old_connect,                \* trampolines: NULL or the original's name
    old_gethostbyname,
    old_getaddrinfo,
    hooked,                     \* libc symbols whose entry is redirected
    resolver,                   \* "none", "open" or "freed"
    success,                    \* local of install_network_hooks
    lookupFound,                \* symbols symbolLookup found (observer)
    idx,                        \* index of the candidate path in lib_paths
    source_fd,                  \* locals of load_library_via_memfd
    memfd,
    file_size,
    copied,
    bytes_read,
    written,                    \* bytes actually written to memfd (observer)
    copy_fault,                 \* a read failed or hit end of file early, or a
                                \* write was short, in this copy (observer)
    fds,                        \* descriptors open in the process
    memfds,                     \* the open anonymous descriptors among fds
    readable,                   \* candidates that passed access() (observer)
    attempts,                   \* load attempts made, in order (observer)
    loaderCalls,                \* external functions the loader has called (observer)
    memfd_error,                \* where load_library_via_memfd last returned nullptr
    calls,                      \* number of calls per external function (observer)
    initRc,                     \* <<status>> once aubo_initialize returned
    stage,                      \* outcome of the lifecycle run (observer)
    kmsg,                       \* TRUE once the kernel-log line was written
    lastCall,                   \* the last handler invocation (observer)
    queried                     \* <<request type, origin>> pairs the oracle was
                                \* asked with (observer)

\* The locals of load_library_via_memfd.
memfdLocals == <<source_fd, memfd, file_size, copied, bytes_read, written, copy_fault>>
\* What the loader never touches.
notLoader == <<readable, api_table, aubo_initialize, aubo_shutdown, aubo_should_block_request,
               old_connect, old_gethostbyname, old_getaddrinfo, hooked, resolver,
               success, lookupFound, calls, initRc, stage, kmsg, lastCall, queried>>
oracleVars == <<aubo_initialize, aubo_shutdown, aubo_should_block_request>>
trampVars == <<old_connect, old_gethostbyname, old_getaddrinfo>>
hookVars == <<old_connect, old_gethostbyname, old_getaddrinfo, hooked, resolver,
              success, lookupFound>>
fdVars == <<fds, memfds>>
vars == <<pc, api_table, rust_lib_handle, aubo_initialize, aubo_shutdown,
          aubo_should_block_request, old_connect, old_gethostbyname,
          old_getaddrinfo, hooked, resolver, success, lookupFound, idx,
          source_fd, memfd, file_size, copied, bytes_read, written, copy_fault,
          fds, memfds, readable, attempts,
          loaderCalls, memfd_error, calls, initRc, stage, kmsg, lastCall, queried>>

\* ---------------------------------------------------------------- helpers
\* The null module handle, and the handle a load strategy returns.
NullHandle == [path |-> 0, via |-> "none", fd |-> -1]
Handle(p, via, fd) == [path |-> p, via |-> via, fd |-> fd]

\* open()/memfd_create return the lowest descriptor not in use.
NextFd == CHOOSE n \in 3..(3 + Cardinality(fds)) :
              /\ n \notin fds
              /\ \A m \in 3..(n - 1) : m \in fds

\* The external calls that are counted (everything after the loader's loop).
CallNames == {"dlsym", "dlclose", "initialize", "newSymbolResolver",
              "freeSymbolResolver", "lookup_connect", "lookup_gethostbyname",
              "lookup_getaddrinfo", "hook_connect", "hook_gethostbyname",
              "hook_getaddrinfo", "fopen_kmsg"}

Bump(name) == calls' = [calls EXCEPT ![name] = @ + 1]
\* The loader's external calls are recorded as the set of functions called.
Did(name) == loaderCalls' = loaderCalls \cup {name}

\* A load attempt is recorded when it starts and completed with its outcome.
StartAttempt(p, strategy) ==
    attempts' = Append(attempts, [path |-> p, strategy |-> strategy, outcome |-> "pending"])
EndAttempt(outcome) ==
    attempts' = [attempts EXCEPT ![Len(attempts)].outcome = outcome]

NoCall == [handler |-> "none", args |-> <<>>, bound |-> FALSE, queries |-> <<>>,
           forwarded |-> <<>>, via |-> NULL, result |-> 0, resWritten |-> FALSE]

Init ==
    /\ pc = "start"
    /\ api_table = FALSE
    /\ rust_lib_handle = NullHandle
    /\ aubo_initialize = NULL
    /\ aubo_shutdown = NULL
    /\ aubo_should_block_request = NULL
    /\ old_connect = NULL
    /\ old_gethostbyname = NULL
    /\ old_getaddrinfo = NULL
    /\ hooked = {}
    /\ resolver = "none"
    /\ success = TRUE
    /\ lookupFound = {}
    /\ idx = 1
    /\ source_fd = -1
    /\ memfd = -1
    /\ file_size = 0
    /\ copied = 0
    /\ bytes_read = 0
    /\ written = 0
    /\ copy_fault = FALSE
    /\ fds = {}
    /\ memfds = {}
    /\ readable = {}
    /\ attempts = <<>>
    /\ loaderCalls = {}
    /\ memfd_error = "none"
    /\ calls = [n \in CallNames |-> 0]
    /\ initRc = <<>>
    /\ stage = "Unloaded"
    /\ kmsg = FALSE
    /\ lastCall = NoCall
    /\ queried = {}

\* ------------------------------------------------- onModuleLoaded, entry
\* Copies the API table and enters load_rust_library.
OnModuleLoaded ==
    /\ pc = "start"
    /\ api_table' = TRUE
    /\ idx' = 1
    /\ pc' = "access"
    /\ UNCHANGED <<rust_lib_handle, oracleVars, hookVars, memfdLocals, fdVars,
                   readable, attempts, loaderCalls, memfd_error, calls, initRc, stage,
                   kmsg, lastCall, queried>>

\* --------------------------------------------------- load_rust_library
\* Loop head and readability check of candidate idx: an unreadable path is
\* skipped, a readable one enters load_library_via_memfd.
\* Mutant of SkipCandidate: the result of access() is ignored.
SkipCandidate_never(ok) == FALSE

\* An unreadable candidate is skipped.
SkipCandidate(ok) == ~ok

CheckAccess ==
    /\ pc = "access"
    /\ IF idx > NumPaths
       THEN /\ pc' = "lr_check"
            /\ UNCHANGED <<idx, loaderCalls, readable, attempts>>
       ELSE /\ Did("access")
            /\ \E ok \in BOOLEAN :
                  /\ readable' = IF ok THEN readable \cup {idx} ELSE readable
                  /\ IF SkipCandidate(ok)
                     THEN /\ pc' = "access"
                          /\ idx' = idx + 1
                          /\ UNCHANGED attempts
                     ELSE /\ pc' = "memfd_open"
                          /\ StartAttempt(idx, "memfd")
                          /\ UNCHANGED idx
    /\ UNCHANGED <<rust_lib_handle, memfdLocals, fdVars, memfd_error, api_table,
                   oracleVars, hookVars, calls, initRc, stage, kmsg, lastCall, queried>>

\* ----------------------------------------------- load_library_via_memfd
\* The locals go out of scope when load_library_via_memfd returns.
ResetLocals ==
    /\ source_fd' = -1
    /\ memfd' = -1
    /\ file_size' = 0
    /\ copied' = 0
    /\ bytes_read' = 0
    /\ written' = 0
    /\ copy_fault' = FALSE

\* A return of nullptr from load_library_via_memfd at `site`, after closing
\* the descriptors in `closed`: the caller stores the nullptr in
\* rust_lib_handle and goes on to the direct load.
MemfdReturnNull(site, closed) ==
    /\ fds' = fds \ closed
    /\ memfds' = memfds \ closed
    /\ rust_lib_handle' = NullHandle
    /\ EndAttempt("failed")
    /\ memfd_error' = site
    /\ ResetLocals
    /\ pc' = "direct"

OpenSource ==
    /\ pc = "memfd_open"
    /\ Did("open")
    /\ \E ok \in BOOLEAN :
          IF ok
          THEN /\ source_fd' = NextFd
               /\ fds' = fds \cup {NextFd}
               /\ pc' = "fstat"
               /\ UNCHANGED <<rust_lib_handle, attempts, memfd_error, memfds,
                              memfd, file_size, copied, bytes_read, written,
                              copy_fault>>
          ELSE MemfdReturnNull("open", {})
    /\ UNCHANGED <<idx, notLoader>>

Fstat ==
    /\ pc = "fstat"
    /\ \/ \E sz \in 0..MaxFileSize :
             /\ file_size' = sz
             /\ pc' = "memfd_create"
             /\ UNCHANGED <<rust_lib_handle, attempts, memfd_error, fdVars,
                            source_fd, memfd, copied, bytes_read, written,
                            copy_fault>>
       \/ MemfdReturnNull("fstat", {source_fd})
    /\ UNCHANGED <<idx, loaderCalls, notLoader>>

\* memfd_create, when the build has a syscall number for it; on an
\* architecture without one the call is not made and memfd stays -1.
MemfdCreate ==
    /\ pc = "memfd_create"
    /\ \E supported \in BOOLEAN, ok \in BOOLEAN :
          IF supported /\ ok
          THEN /\ Did("memfd_create")
               /\ memfd' = NextFd
               /\ fds' = fds \cup {NextFd}
               /\ memfds' = memfds \cup {NextFd}
               /\ pc' = "ftruncate"
          ELSE /\ IF supported THEN Did("memfd_create") ELSE UNCHANGED loaderCalls
               /\ memfd' = -1
               /\ pc' = "ashmem_open"
               /\ UNCHANGED fdVars
    /\ UNCHANGED <<rust_lib_handle, attempts, memfd_error, idx, source_fd,
                   file_size, copied, bytes_read, written, copy_fault, notLoader>>

\* Fallback: open("/dev/ashmem").
AshmemOpen ==
    /\ pc = "ashmem_open"
    /\ Did("ashmem_open")
    /\ \E ok \in BOOLEAN :
          IF ok
          THEN /\ memfd' = NextFd
               /\ fds' = fds \cup {NextFd}
               /\ memfds' = memfds \cup {NextFd}
               /\ pc' = "ashmem_ioctl"
               /\ UNCHANGED <<rust_lib_handle, attempts, memfd_error, source_fd,
                              file_size, copied, bytes_read, written, copy_fault>>
          ELSE MemfdReturnNull("create", {source_fd})
    /\ UNCHANGED <<idx, notLoader>>

\* ioctl(memfd, ASHMEM_SET_SIZE, file_size).
AshmemSetSize ==
    /\ pc = "ashmem_ioctl"
    /\ \E ok \in BOOLEAN :
          IF ok
          THEN /\ pc' = "ftruncate"
               /\ UNCHANGED <<rust_lib_handle, attempts, memfd_error, fdVars,
                              memfdLocals>>
          ELSE MemfdReturnNull("ioctl", {memfd, source_fd})
    /\ UNCHANGED <<idx, loaderCalls, notLoader>>

\* ftruncate(memfd, file_size), then the copy loop starts with copied = 0.
Ftruncate ==
    /\ pc = "ftruncate"
    /\ \E ok \in BOOLEAN :
          IF ok
          THEN /\ copied' = 0
               /\ written' = 0
               /\ copy_fault' = FALSE
               /\ pc' = "copy_read"
               /\ UNCHANGED <<rust_lib_handle, attempts, memfd_error, fdVars,
                              source_fd, memfd, file_size, bytes_read>>
          ELSE MemfdReturnNull("ftruncate", {memfd, source_fd})
    /\ UNCHANGED <<idx, loaderCalls, notLoader>>

\* Mutant of CopyRead: a read that returned nothing is tried again.
CopyRead_retry ==
    /\ pc = "copy_read"
    /\ IF copied < file_size
       THEN \E r \in -1..BufferSize :
               /\ bytes_read' = r
               /\ copy_fault' = (r <= 0)
               /\ pc' = IF r <= 0 THEN "copy_read" ELSE "copy_write"
       ELSE /\ pc' = "copy_done"
            /\ UNCHANGED <<bytes_read, copy_fault>>
    /\ UNCHANGED <<loaderCalls, rust_lib_handle, attempts, memfd_error, fdVars, idx,
                   source_fd, memfd, file_size, copied, written, notLoader>>

\* Loop test and read(source_fd, buffer, sizeof(buffer)): -1, 0 (end of
\* file) or any count up to the buffer size.
CopyRead ==
    /\ pc = "copy_read"
    /\ IF copied < file_size
       THEN \E r \in -1..BufferSize :
               /\ bytes_read' = r
               /\ copy_fault' = (r <= 0)
               /\ pc' = IF r <= 0 THEN "copy_done" ELSE "copy_write"
       ELSE /\ pc' = "copy_done"
            /\ UNCHANGED <<bytes_read, copy_fault>>
    /\ UNCHANGED <<loaderCalls, rust_lib_handle, attempts, memfd_error, fdVars, idx,
                   source_fd, memfd, file_size, copied, written, notLoader>>

\* write(memfd, buffer, bytes_read): -1, or any count up to bytes_read.
CopyWrite ==
    /\ pc = "copy_write"
    /\ \E w \in -1..bytes_read :
          /\ written' = written + (IF w > 0 THEN w ELSE 0)
          /\ copy_fault' = (w # bytes_read)
          /\ IF w # bytes_read
             THEN /\ pc' = "copy_done"
                  /\ UNCHANGED copied
             ELSE /\ copied' = copied + w
                  /\ pc' = "copy_read"
    /\ UNCHANGED <<loaderCalls, rust_lib_handle, attempts, memfd_error, fdVars, idx,
                   source_fd, memfd, file_size, bytes_read, notLoader>>

\* Mutant of CopyIncomplete: only a copy that fell short is rejected.
CopyIncomplete_short(c, size) == c < size

\* The test after the loop: the copy is complete when copied == file_size.
CopyIncomplete(c, size) == c # size

\* close(source_fd) and the completeness test of the copy.
CopyDone ==
    /\ pc = "copy_done"
    /\ IF CopyIncomplete(copied, file_size)
       THEN MemfdReturnNull("copy", {source_fd, memfd})
       ELSE /\ fds' = fds \ {source_fd}
            /\ source_fd' = -1
            /\ pc' = "memfd_dlopen"
            /\ UNCHANGED <<memfds, rust_lib_handle, attempts, memfd_error, memfd,
                           file_size, copied, bytes_read, written, copy_fault>>
    /\ UNCHANGED <<idx, loaderCalls, notLoader>>

\* dlopen("/proc/self/fd/<memfd>"); on success memfd stays open, the handle
\* goes to rust_lib_handle and load_rust_library leaves its loop.
DlopenMemfd ==
    /\ pc = "memfd_dlopen"
    /\ Did("dlopen_memfd")
    /\ \E ok \in BOOLEAN :
          IF ok
          THEN /\ rust_lib_handle' = Handle(idx, "memfd", memfd)
               /\ EndAttempt("ok")
               /\ ResetLocals
               /\ pc' = "lr_check"
               /\ UNCHANGED <<fdVars, memfd_error>>
          ELSE MemfdReturnNull("dlopen", {memfd})
    /\ UNCHANGED <<idx, notLoader>>

\* ------------------------------------- load_rust_library, direct dlopen
\* Mutant of DlopenDirect: the loop is not left after a successful dlopen.
DlopenDirect_no_break ==
    /\ pc = "direct"
    /\ Did("dlopen_direct")
    /\ memfd_error' = "none"
    /\ \E ok \in BOOLEAN :
          /\ rust_lib_handle' = IF ok THEN Handle(idx, "direct", -1) ELSE NullHandle
          /\ attempts' = Append(attempts, [path |-> idx, strategy |-> "direct",
                                           outcome |-> IF ok THEN "ok" ELSE "failed"])
          /\ idx' = idx + 1
          /\ pc' = "access"
    /\ UNCHANGED <<memfdLocals, fdVars, notLoader>>

\* dlopen(path): a handle ends the loop, a failure moves to the next path.
DlopenDirect ==
    /\ pc = "direct"
    /\ Did("dlopen_direct")
    /\ memfd_error' = "none"
    /\ \E ok \in BOOLEAN :
          IF ok
          THEN /\ rust_lib_handle' = Handle(idx, "direct", -1)
               /\ attempts' = Append(attempts, [path |-> idx, strategy |-> "direct",
                                                outcome |-> "ok"])
               /\ pc' = "lr_check"
               /\ UNCHANGED idx
          ELSE /\ rust_lib_handle' = NullHandle
               /\ attempts' = Append(attempts, [path |-> idx, strategy |-> "direct",
                                                outcome |-> "failed"])
               /\ idx' = idx + 1
               /\ pc' = "access"
    /\ UNCHANGED <<memfdLocals, fdVars, notLoader>>

\* What the steps after the loader's loop never touch.
loaderState == <<idx, source_fd, memfd, file_size, copied, bytes_read, written,
                 copy_fault, readable, attempts, loaderCalls, memfd_error>>

\* ------------------------------- load_rust_library, binding the oracle
\* The three dlsym results for a library that exports `found`.
BindSymbols(found) ==
    /\ aubo_initialize' = IF "aubo_initialize" \in found THEN BOUND ELSE NULL
    /\ aubo_shutdown' = IF "aubo_shutdown" \in found THEN BOUND ELSE NULL
    /\ aubo_should_block_request' =
          IF "aubo_should_block_request" \in found THEN BOUND ELSE NULL

\* Mutant of SymbolsMissing: only the first binding is tested.
SymbolsMissing_first(found) == "aubo_initialize" \notin found

\* The test on the three bindings: any nullptr among them is a failure.
SymbolsMissing(found) ==
    \/ "aubo_initialize" \notin found
    \/ "aubo_shutdown" \notin found
    \/ "aubo_should_block_request" \notin found

\* Mutant of LoadSymbols: after unloading a library that lacks a symbol,
\* the search goes on with the next candidate.
LoadSymbols_resume ==
    /\ pc = "lr_check"
    /\ IF rust_lib_handle = NullHandle
       THEN /\ stage' = "ModuleNotFound"
            /\ pc' = "done"
            /\ UNCHANGED <<rust_lib_handle, oracleVars, calls, idx>>
       ELSE \E found \in SUBSET OracleSymbols :
               /\ BindSymbols(found)
               /\ IF SymbolsMissing(found)
                  THEN /\ calls' = [calls EXCEPT !["dlsym"] = @ + 3,
                                                 !["dlclose"] = @ + 1]
                       /\ rust_lib_handle' = NullHandle
                       /\ stage' = IF idx < NumPaths THEN stage ELSE "SymbolMissing"
                       /\ pc' = IF idx < NumPaths THEN "access" ELSE "done"
                       /\ idx' = IF idx < NumPaths THEN idx + 1 ELSE idx
                  ELSE /\ calls' = [calls EXCEPT !["dlsym"] = @ + 3]
                       /\ stage' = "ModuleLoaded"
                       /\ pc' = "initialize"
                       /\ UNCHANGED <<rust_lib_handle, idx>>
    /\ UNCHANGED <<api_table, hookVars, memfdLocals, readable, attempts, loaderCalls,
                   memfd_error, fdVars, initRc, kmsg, lastCall, queried>>

\* After the loop: no handle is ModuleNotFound; otherwise the three dlsym
\* calls, and dlclose with the handle reset when one of them is missing.
\* Either failure makes onModuleLoaded return.
LoadSymbols ==
    /\ pc = "lr_check"
    /\ IF rust_lib_handle = NullHandle
       THEN /\ stage' = "ModuleNotFound"
            /\ pc' = "done"
            /\ UNCHANGED <<rust_lib_handle, oracleVars, calls>>
       ELSE \E found \in SUBSET OracleSymbols :
               /\ BindSymbols(found)
               /\ IF SymbolsMissing(found)
                  THEN /\ calls' = [calls EXCEPT !["dlsym"] = @ + 3,
                                                 !["dlclose"] = @ + 1]
                       /\ rust_lib_handle' = NullHandle
                       /\ stage' = "SymbolMissing"
                       /\ pc' = "done"
                  ELSE /\ calls' = [calls EXCEPT !["dlsym"] = @ + 3]
                       /\ stage' = "ModuleLoaded"
                       /\ pc' = "initialize"
                       /\ UNCHANGED rust_lib_handle
    /\ UNCHANGED <<api_table, hookVars, loaderState, fdVars, initRc, kmsg, lastCall, queried>>

\* -------------------------------------------- onModuleLoaded, initialize
\* Mutant of InitFailed: only a positive status counts as a failure.
InitFailed_positive(rc) == rc > 0

\* The test on the status of aubo_initialize.
InitFailed(rc) == rc # 0

\* aubo_initialize(config_path): a nonzero status ends the run.
Initialize ==
    /\ pc = "initialize"
    /\ Bump("initialize")
    /\ \E rc \in {0, 1, -1} :
          /\ initRc' = <<rc>>
          /\ IF InitFailed(rc)
             THEN /\ stage' = "OracleInitFailed"
                  /\ pc' = "done"
             ELSE /\ stage' = "OracleInitialized"
                  /\ pc' = "new_resolver"
    /\ UNCHANGED <<api_table, rust_lib_handle, oracleVars, hookVars, loaderState,
                   fdVars, kmsg, lastCall, queried>>

\* ------------------------------------------------ install_network_hooks
\* newSymbolResolver("libc.so"): without a resolver the function returns
\* false at once and onModuleLoaded returns.
NewResolver ==
    /\ pc = "new_resolver"
    /\ Bump("newSymbolResolver")
    /\ \E ok \in BOOLEAN :
          IF ok
          THEN /\ resolver' = "open"
               /\ success' = TRUE
               /\ pc' = "lookup_connect"
               /\ UNCHANGED stage
          ELSE /\ stage' = "ResolverUnavailable"
               /\ pc' = "done"
               /\ UNCHANGED <<resolver, success>>
    /\ UNCHANGED <<api_table, rust_lib_handle, oracleVars, trampVars, hooked,
                   lookupFound, loaderState, fdVars, initRc, kmsg, lastCall, queried>>

\* The trampoline inlineHook hands back for a symbol: the original code.
Trampoline(sym) ==
    CASE sym = "connect" -> "orig_connect"
      [] sym = "gethostbyname" -> "orig_gethostbyname"
      [] sym = "getaddrinfo" -> "orig_getaddrinfo"

\* Mutant of LookupSymbol: a symbol that is not found ends the installation.
LookupSymbol_abort(sym, pcHere, pcHook, pcNext) ==
    /\ pc = pcHere
    /\ Bump(pcHere)
    /\ \E found \in BOOLEAN :
          IF found
          THEN /\ lookupFound' = lookupFound \cup {sym}
               /\ pc' = pcHook
               /\ UNCHANGED success
          ELSE /\ success' = FALSE
               /\ pc' = "free_resolver"
               /\ UNCHANGED lookupFound
    /\ UNCHANGED <<api_table, rust_lib_handle, oracleVars, trampVars, hooked,
                   resolver, loaderState, fdVars, initRc, stage, kmsg, lastCall, queried>>

\* symbolLookup(resolver, sym): a symbol that is not found clears success
\* and the next symbol is treated.
LookupSymbol(sym, pcHere, pcHook, pcNext) ==
    /\ pc = pcHere
    /\ Bump(pcHere)
    /\ \E found \in BOOLEAN :
          IF found
          THEN /\ lookupFound' = lookupFound \cup {sym}
               /\ pc' = pcHook
               /\ UNCHANGED success
          ELSE /\ success' = FALSE
               /\ pc' = pcNext
               /\ UNCHANGED lookupFound
    /\ UNCHANGED <<api_table, rust_lib_handle, oracleVars, trampVars, hooked,
                   resolver, loaderState, fdVars, initRc, stage, kmsg, lastCall, queried>>

\* Mutant of HookSymbol: a failed inlineHook returns false at once, without
\* releasing the resolver.
HookSymbol_return(sym, pcHere, pcNext) ==
    /\ pc = pcHere
    /\ Bump(pcHere)
    /\ \E rc \in {ZN_SUCCESS, ZN_FAILED} :
          IF rc = ZN_SUCCESS
          THEN /\ hooked' = hooked \cup {sym}
               /\ old_connect' = IF sym = "connect" THEN Trampoline(sym)
                                 ELSE old_connect
               /\ old_gethostbyname' = IF sym = "gethostbyname" THEN Trampoline(sym)
                                       ELSE old_gethostbyname
               /\ old_getaddrinfo' = IF sym = "getaddrinfo" THEN Trampoline(sym)
                                     ELSE old_getaddrinfo
               /\ pc' = pcNext
               /\ UNCHANGED <<success, stage>>
          ELSE /\ success' = FALSE
               /\ pc' = "done"
               /\ stage' = "HooksFailed"
               /\ UNCHANGED <<hooked, trampVars>>
    /\ UNCHANGED <<api_table, rust_lib_handle, oracleVars, resolver, lookupFound,
                   loaderState, fdVars, initRc, kmsg, lastCall, queried>>

\* inlineHook(addr, handler, &old_sym): ZN_SUCCESS redirects the symbol and
\* stores the trampoline; a failure clears success.  Either way the next
\* symbol is treated.
HookSymbol(sym, pcHere, pcNext) ==
    /\ pc = pcHere
    /\ Bump(pcHere)
    /\ \E rc \in {ZN_SUCCESS, ZN_FAILED} :
          IF rc = ZN_SUCCESS
          THEN /\ hooked' = hooked \cup {sym}
               /\ old_connect' = IF sym = "connect" THEN Trampoline(sym)
                                 ELSE old_connect
               /\ old_gethostbyname' = IF sym = "gethostbyname" THEN Trampoline(sym)
                                       ELSE old_gethostbyname
               /\ old_getaddrinfo' = IF sym = "getaddrinfo" THEN Trampoline(sym)
                                     ELSE old_getaddrinfo
               /\ UNCHANGED success
          ELSE /\ success' = FALSE
               /\ UNCHANGED <<hooked, trampVars>>
    /\ pc' = pcNext
    /\ UNCHANGED <<api_table, rust_lib_handle, oracleVars, resolver, lookupFound,
                   loaderState, fdVars, initRc, stage, kmsg, lastCall, queried>>

LookupConnect ==
    LookupSymbol("connect", "lookup_connect", "hook_connect", "lookup_gethostbyname")
HookConnect ==
    HookSymbol("connect", "hook_connect", "lookup_gethostbyname")
LookupGethostbyname ==
    LookupSymbol("gethostbyname", "lookup_gethostbyname", "hook_gethostbyname",
                 "lookup_getaddrinfo")
HookGethostbyname ==
    HookSymbol("gethostbyname", "hook_gethostbyname", "lookup_getaddrinfo")
LookupGetaddrinfo ==
    LookupSymbol("getaddrinfo", "lookup_getaddrinfo", "hook_getaddrinfo",
                 "free_resolver")
HookGetaddrinfo ==
    HookSymbol("getaddrinfo", "hook_getaddrinfo", "free_resolver")

\* Mutant of AfterHooks: the result of install_network_hooks is ignored.
AfterHooks_lenient(ok) == "active"

\* What onModuleLoaded does with the result of install_network_hooks.
AfterHooks(ok) == IF ok THEN "active" ELSE "done"

\* Mutant of FreeResolver: when a lookup or install failed, the hooks that
\* were installed are taken out again.
FreeResolver_rollback ==
    /\ pc = "free_resolver"
    /\ Bump("freeSymbolResolver")
    /\ resolver' = "freed"
    /\ pc' = AfterHooks(success)
    /\ stage' = IF AfterHooks(success) = "active" THEN "HooksInstalled"
                ELSE "HooksFailed"
    /\ hooked' = IF success THEN hooked ELSE {}
    /\ old_connect' = IF success THEN old_connect ELSE NULL
    /\ old_gethostbyname' = IF success THEN old_gethostbyname ELSE NULL
    /\ old_getaddrinfo' = IF success THEN old_getaddrinfo ELSE NULL
    /\ UNCHANGED <<api_table, rust_lib_handle, oracleVars,
                   success, lookupFound, loaderState, fdVars, initRc, kmsg, lastCall, queried>>

\* freeSymbolResolver(resolver); return success; and the caller's test.
FreeResolver ==
    /\ pc = "free_resolver"
    /\ Bump("freeSymbolResolver")
    /\ resolver' = "freed"
    /\ pc' = AfterHooks(success)
    /\ stage' = IF AfterHooks(success) = "active" THEN "HooksInstalled"
                ELSE "HooksFailed"
    /\ UNCHANGED <<api_table, rust_lib_handle, oracleVars, trampVars, hooked,
                   success, lookupFound, loaderState, fdVars, initRc, kmsg, lastCall, queried>>

\* ------------------------------------------------ onModuleLoaded, success
\* "ad-blocking active" and the line written to /dev/kmsg when it opens.
Activate ==
    /\ pc = "active"
    /\ Bump("fopen_kmsg")
    /\ stage' = "Active"
    /\ \E opened \in BOOLEAN : kmsg' = opened
    /\ pc' = "done"
    /\ UNCHANGED <<api_table, rust_lib_handle, oracleVars, hookVars, loaderState,
                   fdVars, initRc, lastCall, queried>>

\* ----------------------------------------------------------- handlers
\* Values the application passes and the originals return.
Hostnames == {NULL, "ads.example", "ok.example"}
Services == {NULL, "443"}
Addrs == {NULL, "addr"}
OracleAnswers == {0, 1, -1}
HostentResults == {NULL, "hostent"}
AddrinfoResults == {0, EAI_NONAME}
ConnectResults == {0, -1}

\* One query of aubo_should_block_request and its answer.
Query(target, kind, origin, answer) ==
    [target |-> target, kind |-> kind, origin |-> origin, answer |-> answer]

\* One call of a trampoline: its arguments and what the original returned.
Forward(args, ret) == [args |-> args, ret |-> ret]

\* Mutant of my_connect: a connection is refused when there is an address
\* and the oracle is bound.
my_connect_enforcing(sockfd, addr, addrlen, ret) ==
    /\ "connect" \in hooked
    /\ LET blocked == addr # NULL /\ aubo_should_block_request # NULL
       IN lastCall' = [handler |-> "connect",
                       args |-> <<sockfd, addr, addrlen>>,
                       bound |-> aubo_should_block_request # NULL,
                       queries |-> IF blocked
                                   THEN <<Query(addr, "connect", "connect", 1)>>
                                   ELSE <<>>,
                       forwarded |-> IF blocked THEN <<>>
                                     ELSE <<Forward(<<sockfd, addr, addrlen>>, ret)>>,
                       via |-> IF blocked THEN NULL ELSE old_connect,
                       result |-> IF blocked THEN -1 ELSE ret,
                       resWritten |-> FALSE]
    /\ UNCHANGED queried

\* my_connect: logs, then calls old_connect with its own arguments.
my_connect(sockfd, addr, addrlen, ret) ==
    /\ "connect" \in hooked
    /\ lastCall' = [handler |-> "connect",
                    args |-> <<sockfd, addr, addrlen>>,
                    bound |-> aubo_should_block_request # NULL,
                    queries |-> <<>>,
                    forwarded |-> <<Forward(<<sockfd, addr, addrlen>>, ret)>>,
                    via |-> old_connect,
                    result |-> ret,
                    resWritten |-> FALSE]
    /\ UNCHANGED queried

\* Mutant of my_gethostbyname: the original is called before the oracle's
\* answer is looked at.
my_gethostbyname_resolves_first(name, answer, ret) ==
    /\ "gethostbyname" \in hooked
    /\ LET asks == name # NULL /\ aubo_should_block_request # NULL
           blocked == asks /\ answer # 0
       IN lastCall' = [handler |-> "gethostbyname",
                       args |-> <<name>>,
                       bound |-> aubo_should_block_request # NULL,
                       queries |-> IF asks
                                   THEN <<Query(name, "dns", "gethostbyname", answer)>>
                                   ELSE <<>>,
                       forwarded |-> <<Forward(<<name>>, ret)>>,
                       via |-> old_gethostbyname,
                       result |-> IF blocked THEN NULL ELSE ret,
                       resWritten |-> FALSE]
    /\ queried' = IF name # NULL /\ aubo_should_block_request # NULL
                  THEN queried \cup {<<"dns", "gethostbyname">>}
                  ELSE queried

\* Mutant of my_gethostbyname: the oracle is asked about a null name too.
my_gethostbyname_no_null_check(name, answer, ret) ==
    /\ "gethostbyname" \in hooked
    /\ LET asks == aubo_should_block_request # NULL
           blocked == asks /\ answer # 0
       IN lastCall' = [handler |-> "gethostbyname",
                       args |-> <<name>>,
                       bound |-> aubo_should_block_request # NULL,
                       queries |-> IF asks
                                   THEN <<Query(name, "dns", "gethostbyname", answer)>>
                                   ELSE <<>>,
                       forwarded |-> IF blocked THEN <<>> ELSE <<Forward(<<name>>, ret)>>,
                       via |-> IF blocked THEN NULL ELSE old_gethostbyname,
                       result |-> IF blocked THEN NULL ELSE ret,
                       resWritten |-> FALSE]
    /\ queried' = IF aubo_should_block_request # NULL
                  THEN queried \cup {<<"dns", "gethostbyname">>}
                  ELSE queried

\* my_gethostbyname: with a name and a bound oracle it asks the oracle, and
\* a nonzero answer returns nullptr; otherwise old_gethostbyname(name).
\* `answer` is what the oracle returns when asked, `ret` what the original
\* returns when called.
my_gethostbyname(name, answer, ret) ==
    /\ "gethostbyname" \in hooked
    /\ LET asks == name # NULL /\ aubo_should_block_request # NULL
           blocked == asks /\ answer # 0
       IN lastCall' = [handler |-> "gethostbyname",
                       args |-> <<name>>,
                       bound |-> aubo_should_block_request # NULL,
                       queries |-> IF asks
                                   THEN <<Query(name, "dns", "gethostbyname", answer)>>
                                   ELSE <<>>,
                       forwarded |-> IF blocked THEN <<>> ELSE <<Forward(<<name>>, ret)>>,
                       via |-> IF blocked THEN NULL ELSE old_gethostbyname,
                       result |-> IF blocked THEN NULL ELSE ret,
                       resWritten |-> FALSE]
    /\ queried' = IF name # NULL /\ aubo_should_block_request # NULL
                  THEN queried \cup {<<"dns", "gethostbyname">>}
                  ELSE queried

\* Mutant of my_getaddrinfo: only a positive answer of the oracle blocks.
my_getaddrinfo_positive(node, service, hints, res, answer, ret) ==
    /\ "getaddrinfo" \in hooked
    /\ LET asks == node # NULL /\ aubo_should_block_request # NULL
           blocked == asks /\ answer > 0
       IN lastCall' = [handler |-> "getaddrinfo",
                       args |-> <<node, service, hints, res>>,
                       bound |-> aubo_should_block_request # NULL,
                       queries |-> IF asks
                                   THEN <<Query(node, "dns", "getaddrinfo", answer)>>
                                   ELSE <<>>,
                       forwarded |-> IF blocked THEN <<>>
                                     ELSE <<Forward(<<node, service, hints, res>>, ret)>>,
                       via |-> IF blocked THEN NULL ELSE old_getaddrinfo,
                       result |-> IF blocked THEN EAI_NONAME ELSE ret,
                       resWritten |-> ~blocked /\ ret = 0]
    /\ queried' = IF node # NULL /\ aubo_should_block_request # NULL
                  THEN queried \cup {<<"dns", "getaddrinfo">>}
                  ELSE queried

\* Mutant of my_getaddrinfo: the query names gethostbyname as its origin.
my_getaddrinfo_wrong_origin(node, service, hints, res, answer, ret) ==
    /\ "getaddrinfo" \in hooked
    /\ LET asks == node # NULL /\ aubo_should_block_request # NULL
           blocked == asks /\ answer # 0
       IN lastCall' = [handler |-> "getaddrinfo",
                       args |-> <<node, service, hints, res>>,
                       bound |-> aubo_should_block_request # NULL,
                       queries |-> IF asks
                                   THEN <<Query(node, "dns", "gethostbyname", answer)>>
                                   ELSE <<>>,
                       forwarded |-> IF blocked THEN <<>>
                                     ELSE <<Forward(<<node, service, hints, res>>, ret)>>,
                       via |-> IF blocked THEN NULL ELSE old_getaddrinfo,
                       result |-> IF blocked THEN EAI_NONAME ELSE ret,
                       resWritten |-> ~blocked /\ ret = 0]
    /\ queried' = IF node # NULL /\ aubo_should_block_request # NULL
                  THEN queried \cup {<<"dns", "gethostbyname">>}
                  ELSE queried

\* my_getaddrinfo: as my_gethostbyname on node, a nonzero answer returns
\* EAI_NONAME; otherwise old_getaddrinfo(node, service, hints, res), which
\* stores a list in *res when it returns 0.
my_getaddrinfo(node, service, hints, res, answer, ret) ==
    /\ "getaddrinfo" \in hooked
    /\ LET asks == node # NULL /\ aubo_should_block_request # NULL
           blocked == asks /\ answer # 0
       IN lastCall' = [handler |-> "getaddrinfo",
                       args |-> <<node, service, hints, res>>,
                       bound |-> aubo_should_block_request # NULL,
                       queries |-> IF asks
                                   THEN <<Query(node, "dns", "getaddrinfo", answer)>>
                                   ELSE <<>>,
                       forwarded |-> IF blocked THEN <<>>
                                     ELSE <<Forward(<<node, service, hints, res>>, ret)>>,
                       via |-> IF blocked THEN NULL ELSE old_getaddrinfo,
                       result |-> IF blocked THEN EAI_NONAME ELSE ret,
                       resWritten |-> ~blocked /\ ret = 0]
    /\ queried' = IF node # NULL /\ aubo_should_block_request # NULL
                  THEN queried \cup {<<"dns", "getaddrinfo">>}
                  ELSE queried

\* An application thread calls a hooked libc function.
CallConnect ==
    /\ \E addr \in Addrs, ret \in ConnectResults : my_connect(3, addr, 16, ret)
    /\ UNCHANGED <<pc, api_table, rust_lib_handle, oracleVars, hookVars,
                   loaderState, fdVars, calls, initRc, stage, kmsg>>
\* Mutant of CallGethostbyname: the handler drops the oracle binding when
\* the oracle reports an error.
CallGethostbyname_disarm ==
    /\ \E name \in Hostnames, answer \in OracleAnswers, ret \in HostentResults :
          /\ my_gethostbyname(name, answer, ret)
          /\ aubo_should_block_request' =
                IF name # NULL /\ answer < 0 THEN NULL
                ELSE aubo_should_block_request
    /\ UNCHANGED <<pc, api_table, rust_lib_handle, aubo_initialize, aubo_shutdown,
                   hookVars, loaderState, fdVars, calls, initRc, stage, kmsg>>
CallGethostbyname ==
    /\ \E name \in Hostnames, answer \in OracleAnswers, ret \in HostentResults :
          my_gethostbyname(name, answer, ret)
    /\ UNCHANGED <<pc, api_table, rust_lib_handle, oracleVars, hookVars,
                   loaderState, fdVars, calls, initRc, stage, kmsg>>
CallGetaddrinfo ==
    /\ \E node \in Hostnames, service \in Services, answer \in OracleAnswers,
          ret \in AddrinfoResults :
          my_getaddrinfo(node, service, NULL, "res", answer, ret)
    /\ UNCHANGED <<pc, api_table, rust_lib_handle, oracleVars, hookVars,
                   loaderState, fdVars, calls, initRc, stage, kmsg>>

\* The steps of the thread that runs onModuleLoaded.
LifecycleNext ==
    \/ OnModuleLoaded
    \/ CheckAccess
    \/ OpenSource
    \/ Fstat
    \/ MemfdCreate
    \/ AshmemOpen
    \/ AshmemSetSize
    \/ Ftruncate
    \/ CopyRead
    \/ CopyWrite
    \/ CopyDone
    \/ DlopenMemfd
    \/ DlopenDirect
    \/ LoadSymbols
    \/ Initialize
    \/ NewResolver
    \/ LookupConnect
    \/ HookConnect
    \/ LookupGethostbyname
    \/ HookGethostbyname
    \/ LookupGetaddrinfo
    \/ HookGetaddrinfo
    \/ FreeResolver
    \/ Activate

Next ==
    \/ OnModuleLoaded
    \/ CheckAccess
    \/ OpenSource
    \/ Fstat
    \/ MemfdCreate
    \/ AshmemOpen
    \/ AshmemSetSize
    \/ Ftruncate
    \/ CopyRead
    \/ CopyWrite
    \/ CopyDone
    \/ DlopenMemfd
    \/ DlopenDirect
    \/ LoadSymbols
    \/ Initialize
    \/ NewResolver
    \/ LookupConnect
    \/ HookConnect
    \/ LookupGethostbyname
    \/ HookGethostbyname
    \/ LookupGetaddrinfo
    \/ HookGetaddrinfo
    \/ FreeResolver
    \/ Activate
    \/ CallConnect
    \/ CallGethostbyname
    \/ CallGetaddrinfo

Spec == Init /\ [][Next]_vars

\* onModuleLoaded runs on one thread from entry to return and every external
\* call it makes returns, so a lifecycle step that stays possible is taken.
SpecFair == Spec /\ WF_vars(LifecycleNext)

\* ================================================================ claims
\* The oracle is usable: a module is loaded, the three entry points are
\* bound and aubo_initialize returned 0.
OracleReady ==
    /\ rust_lib_handle # NullHandle
    /\ \E k \in 1..Len(attempts) : attempts[k].outcome = "ok"
    /\ aubo_initialize = BOUND
    /\ aubo_shutdown = BOUND
    /\ aubo_should_block_request = BOUND
    /\ initRc = <<0>>

\* C1: a call of my_gethostbyname with a non-null hostname while the oracle
\* is bound asks the oracle once about that hostname; on a nonzero answer it
\* returns nullptr without calling old_gethostbyname, on a zero answer it
\* calls old_gethostbyname once with the same hostname and returns what
\* that call returned.
C1_ResolveByName ==
    (lastCall.handler = "gethostbyname" /\ lastCall.args[1] # NULL /\ lastCall.bound) =>
        /\ Len(lastCall.queries) = 1
        /\ lastCall.queries[1].target = lastCall.args[1]
        /\ (lastCall.queries[1].answer # 0 =>
              /\ lastCall.result = NULL
              /\ lastCall.forwarded = <<>>)
        /\ (lastCall.queries[1].answer = 0 =>
              /\ Len(lastCall.forwarded) = 1
              /\ lastCall.forwarded[1].args = lastCall.args
              /\ lastCall.via = "orig_gethostbyname"
              /\ lastCall.result = lastCall.forwarded[1].ret)

\* A blocked hostname: the oracle answered nonzero and nullptr came back.
C1_Witness ==
    /\ lastCall.handler = "gethostbyname"
    /\ lastCall.args = <<"ads.example">>
    /\ Len(lastCall.queries) = 1
    /\ lastCall.queries[1].answer = -1
    /\ lastCall.result = NULL
    /\ lastCall.forwarded = <<>>

\* C2: a call of my_getaddrinfo with a non-null node while the oracle is
\* bound: on a nonzero answer it returns EAI_NONAME, calls no trampoline and
\* leaves *res alone; on a zero answer it calls old_getaddrinfo once with
\* node, service, hints and res as given and returns its value.
C2_ResolveByAddrinfo ==
    (lastCall.handler = "getaddrinfo" /\ lastCall.args[1] # NULL /\ lastCall.bound) =>
        /\ Len(lastCall.queries) = 1
        /\ lastCall.queries[1].target = lastCall.args[1]
        /\ (lastCall.queries[1].answer # 0 =>
              /\ lastCall.result = EAI_NONAME
              /\ lastCall.forwarded = <<>>
              /\ ~lastCall.resWritten)
        /\ (lastCall.queries[1].answer = 0 =>
              /\ Len(lastCall.forwarded) = 1
              /\ lastCall.forwarded[1].args = lastCall.args
              /\ lastCall.via = "orig_getaddrinfo"
              /\ lastCall.result = lastCall.forwarded[1].ret)

\* An allowed node with a service name: forwarded unchanged, and the
\* original's own EAI_NONAME is returned as it is.
C2_Witness ==
    /\ lastCall.handler = "getaddrinfo"
    /\ lastCall.args = <<"ok.example", "443", NULL, "res">>
    /\ Len(lastCall.queries) = 1
    /\ lastCall.queries[1].answer = 0
    /\ lastCall.forwarded = <<Forward(<<"ok.example", "443", NULL, "res">>, EAI_NONAME)>>
    /\ lastCall.result = EAI_NONAME

\* C4: the success point of onModuleLoaded ("ad-blocking active", the write
\* to /dev/kmsg) is reached only with the module loaded, the three entry
\* points bound and aubo_initialize returned 0; a run that failed at one of
\* these stages has ended and wrote nothing.
C4_ActiveImpliesInitialized ==
    /\ (pc = "active" \/ stage = "Active" \/ kmsg) => OracleReady
    /\ stage \in {"ModuleNotFound", "SymbolMissing", "OracleInitFailed"} =>
          (pc = "done" /\ ~kmsg)

\* The run ended Active with the kernel-log line written.
C4_Witness ==
    /\ pc = "done"
    /\ stage = "Active"
    /\ kmsg
    /\ OracleReady

\* No resolver was opened, no lookup or inlineHook call made, no hook is
\* live and no handler has run.
NoLookupNoHook ==
    /\ \A n \in {"lookup_connect", "lookup_gethostbyname", "lookup_getaddrinfo",
                 "hook_connect", "hook_gethostbyname", "hook_getaddrinfo"} :
          calls[n] = 0
    /\ lookupFound = {}
    /\ hooked = {}
    /\ lastCall = NoCall
NoHookActivity ==
    /\ calls["newSymbolResolver"] = 0
    /\ resolver = "none"
    /\ NoLookupNoHook

\* C5: without a loaded module, three bound entry points and a zero status
\* of aubo_initialize there is no resolver, no inlineHook call, no live hook
\* and no handler run; ModuleNotFound, SymbolMissing and OracleInitFailed end
\* the run in that condition; and when newSymbolResolver fails the run ends
\* without any lookup or inlineHook call.
C5_NoHookWithoutOracle ==
    /\ ~OracleReady => NoHookActivity
    /\ stage \in {"ModuleNotFound", "SymbolMissing", "OracleInitFailed"} =>
          (pc = "done" /\ NoHookActivity)
    /\ stage = "ResolverUnavailable" => (pc = "done" /\ NoLookupNoHook)

\* aubo_initialize was called, returned nonzero, and the run ended with
\* nothing installed.
C5_Witness ==
    /\ stage = "OracleInitFailed"
    /\ pc = "done"
    /\ calls["initialize"] = 1
    /\ initRc = <<1>>
    /\ NoHookActivity

\* The trampoline pointer of a symbol.
OldOf(sym) ==
    CASE sym = "connect" -> old_connect
      [] sym = "gethostbyname" -> old_gethostbyname
      [] sym = "getaddrinfo" -> old_getaddrinfo
LookupCall(sym) ==
    CASE sym = "connect" -> "lookup_connect"
      [] sym = "gethostbyname" -> "lookup_gethostbyname"
      [] sym = "getaddrinfo" -> "lookup_getaddrinfo"
HookCall(sym) ==
    CASE sym = "connect" -> "hook_connect"
      [] sym = "gethostbyname" -> "hook_gethostbyname"
      [] sym = "getaddrinfo" -> "hook_getaddrinfo"

\* The run has ended after install_network_hooks treated the three symbols.
HooksAttempted == pc = "done" /\ resolver = "freed"

\* C6 as stated: once module load and oracle initialization succeeded and
\* the three hooks have been attempted, the run ends Active whatever the
\* lookups and installs returned.
C6_AsStated == HooksAttempted => stage = "Active"

\* C6, amended: once the three hooks have been attempted, the run ends
\* Active exactly when every lookup and every install succeeded; otherwise
\* it ends without the success log and without the kernel-log write, with
\* the hooks that were installed still in place.
C6_ActiveIffAllHooked ==
    HooksAttempted =>
        /\ OracleReady
        /\ stage \in {"Active", "HooksFailed"}
        /\ stage = "Active" <=> (lookupFound = SymbolSet /\ hooked = SymbolSet)
        /\ stage = "HooksFailed" => ~kmsg
        /\ \A s \in hooked : OldOf(s) = Trampoline(s)

\* One install failed, the other two hooks are live, and the run ended
\* without reporting activation.
C6_Witness ==
    /\ HooksAttempted
    /\ lookupFound = SymbolSet
    /\ hooked = {"connect", "getaddrinfo"}
    /\ stage = "HooksFailed"
    /\ ~kmsg

\* C7: with the resolver open, each of the three symbols gets one lookup
\* whatever happened to the other two, and one inlineHook call exactly when
\* its lookup found it; every symbol that is hooked has its trampoline
\* stored, every other trampoline pointer is still null.
C7_HookIndependence ==
    /\ resolver = "freed" =>
          \A s \in SymbolSet :
             /\ calls[LookupCall(s)] = 1
             /\ calls[HookCall(s)] = IF s \in lookupFound THEN 1 ELSE 0
    /\ \A s \in SymbolSet :
          /\ s \in hooked => (s \in lookupFound /\ OldOf(s) = Trampoline(s))
          /\ s \notin hooked => OldOf(s) = NULL
          /\ calls[LookupCall(s)] <= 1
          /\ calls[HookCall(s)] <= calls[LookupCall(s)]

\* The resolver did not find connect; gethostbyname and getaddrinfo were
\* still looked up and hooked.
C7_Witness ==
    /\ resolver = "freed"
    /\ lookupFound = {"gethostbyname", "getaddrinfo"}
    /\ hooked = {"gethostbyname", "getaddrinfo"}
    /\ calls["lookup_connect"] = 1
    /\ old_connect = NULL
    /\ old_gethostbyname = "orig_gethostbyname"
    /\ old_getaddrinfo = "orig_getaddrinfo"

\* C8: as long as no candidate has passed the readability check the loader
\* has made no load attempt and no call but access(), no descriptor is
\* open, and the module handle and the three bindings are unset; when no
\* candidate at all is readable the run ends with ModuleNotFound.
C8_NoReadableCandidate ==
    readable = {} =>
        /\ attempts = <<>>
        /\ loaderCalls \subseteq {"access"}
        /\ fds = {}
        /\ memfds = {}
        /\ rust_lib_handle = NullHandle
        /\ aubo_initialize = NULL
        /\ aubo_shutdown = NULL
        /\ aubo_should_block_request = NULL
        /\ pc = "done" => stage = "ModuleNotFound"

\* All candidates were checked, none was readable, the run ended.
C8_Witness ==
    /\ pc = "done"
    /\ idx = NumPaths + 1
    /\ readable = {}
    /\ loaderCalls = {"access"}
    /\ stage = "ModuleNotFound"

\* C9: the load from the anonymous descriptor is attempted, and a handle
\* returned by the memory-backed load, only when the bytes written equal
\* the file size; after a failed or early-ending read or a short write the
\* copy loop ends at once, and the attempt closes the anonymous descriptor
\* and returns no handle without a load from the descriptor.
C9_ExactCopy ==
    /\ [](pc = "memfd_dlopen" =>
            (written = file_size /\ copied = file_size /\ ~copy_fault /\ memfd \in memfds))
    /\ [](copy_fault => pc = "copy_done")
    /\ [][(rust_lib_handle'.via = "memfd" /\ rust_lib_handle.via # "memfd") =>
            (pc = "memfd_dlopen" /\ written = file_size)]_vars
    /\ [][(pc = "copy_done" /\ (copy_fault \/ written # file_size)) =>
            /\ pc' = "direct"
            /\ rust_lib_handle' = NullHandle
            /\ memfd \notin fds'
            /\ memfds' = {}
            /\ loaderCalls' = loaderCalls]_vars

\* A copy was abandoned: the attempt returned no handle, nothing was loaded
\* from a descriptor and no descriptor is left open.
C9_Witness ==
    /\ pc = "direct"
    /\ memfd_error = "copy"
    /\ rust_lib_handle = NullHandle
    /\ "dlopen_memfd" \notin loaderCalls
    /\ fds = {}

\* The readable candidates strictly between two paths.
ReadableBetween(p, q) == {r \in readable : p < r /\ r < q}

\* C10: load attempts follow the list order; on each readable candidate
\* the memory-backed load comes first and the direct load of the same path
\* follows exactly when the memory-backed load failed, at whatever step;
\* the next readable candidate is tried only after both failed; and no
\* attempt follows the one that produced a handle.
C10_OrderedFallback ==
    /\ \A k \in 1..Len(attempts) :
          LET a == attempts[k] IN
          /\ a.path \in readable
          /\ a.outcome \in {"ok", "pending"} => k = Len(attempts)
          /\ k = 1 => (a.strategy = "memfd" /\ \A r \in readable : a.path <= r)
          /\ k > 1 =>
                LET b == attempts[k - 1] IN
                /\ b.outcome = "failed"
                /\ IF a.strategy = "direct"
                   THEN b.strategy = "memfd" /\ b.path = a.path
                   ELSE /\ b.strategy = "direct"
                        /\ b.path < a.path
                        /\ ReadableBetween(b.path, a.path) = {}
          /\ (a.strategy = "memfd" /\ a.outcome = "failed") =>
                IF k = Len(attempts)
                THEN pc = "direct" /\ idx = a.path
                ELSE attempts[k + 1].strategy = "direct" /\ attempts[k + 1].path = a.path
    /\ \A r \in readable : \E k \in 1..Len(attempts) :
          attempts[k].path = r /\ attempts[k].strategy = "memfd"
    /\ pc = "direct" =>
          memfd_error \in {"open", "fstat", "create", "ioctl", "ftruncate", "copy", "dlopen"}
    /\ rust_lib_handle # NullHandle =>
          /\ attempts # <<>>
          /\ attempts[Len(attempts)].outcome = "ok"
          /\ attempts[Len(attempts)].path = rust_lib_handle.path
          /\ attempts[Len(attempts)].strategy = rust_lib_handle.via

\* Candidate 1 failed both ways, candidate 2 was unreadable, candidate 3
\* loaded directly after its memory-backed load failed; candidate 4 was
\* never looked at.
C10_Witness ==
    /\ pc = "lr_check"
    /\ readable = {1, 3}
    /\ Len(attempts) = 4
    /\ attempts[1] = [path |-> 1, strategy |-> "memfd", outcome |-> "failed"]
    /\ attempts[2] = [path |-> 1, strategy |-> "direct", outcome |-> "failed"]
    /\ attempts[3] = [path |-> 3, strategy |-> "memfd", outcome |-> "failed"]
    /\ attempts[4] = [path |-> 3, strategy |-> "direct", outcome |-> "ok"]
    /\ rust_lib_handle = Handle(3, "direct", -1)

\* The binding step of load_rust_library has returned.
BindingStepReturned == calls["dlsym"] > 0

\* C11: once the binding step has returned, aubo_initialize, aubo_shutdown
\* and aubo_should_block_request are all set or all unset; a step that
\* failed for a missing symbol leaves none of them set.
C11_AllOrNothing ==
    BindingStepReturned =>
        /\ \/ (aubo_initialize = BOUND /\ aubo_shutdown = BOUND
               /\ aubo_should_block_request = BOUND)
           \/ (aubo_initialize = NULL /\ aubo_shutdown = NULL
               /\ aubo_should_block_request = NULL)
        /\ stage = "SymbolMissing" =>
              (aubo_initialize = NULL /\ aubo_shutdown = NULL
               /\ aubo_should_block_request = NULL)

\* The lifecycle is inside install_network_hooks with the resolver in hand.
InsideHookInstall ==
    pc \in {"lookup_connect", "hook_connect", "lookup_gethostbyname",
            "hook_gethostbyname", "lookup_getaddrinfo", "hook_getaddrinfo",
            "free_resolver"}

\* C12: a resolver that was opened is open exactly while
\* install_network_hooks runs and has been released exactly once when it
\* returns, whatever the lookups and installs returned; lookups are made
\* only on the open resolver.
C12_ScopedResolver ==
    /\ [](calls["newSymbolResolver"] <= 1 /\ calls["freeSymbolResolver"] <= 1)
    /\ [](resolver = "open" <=> InsideHookInstall)
    /\ [](resolver = "none" => calls["freeSymbolResolver"] = 0)
    /\ [](resolver = "freed" => calls["freeSymbolResolver"] = 1)
    /\ []((pc \in {"active", "done"} /\ stage \notin {"ModuleNotFound", "SymbolMissing",
                      "OracleInitFailed", "ResolverUnavailable"}) =>
             resolver = "freed")
    /\ [][(\E s \in SymbolSet : calls'[LookupCall(s)] # calls[LookupCall(s)]) =>
             (resolver = "open" /\ resolver' = "open")]_vars

\* The resolver was released after a failed lookup and a failed install.
C12_Witness ==
    /\ pc = "done"
    /\ resolver = "freed"
    /\ calls["freeSymbolResolver"] = 1
    /\ lookupFound = {"connect", "gethostbyname"}
    /\ hooked = {"connect"}

\* C13: every call of my_connect, whatever addr is and whether or not the
\* oracle is bound, asks the oracle nothing, calls old_connect once with
\* sockfd, addr and addrlen as given and returns its result.
C13_ConnectObservationOnly ==
    lastCall.handler = "connect" =>
        /\ lastCall.queries = <<>>
        /\ Len(lastCall.forwarded) = 1
        /\ lastCall.forwarded[1].args = lastCall.args
        /\ lastCall.via = "orig_connect"
        /\ lastCall.result = lastCall.forwarded[1].ret
        /\ \A q \in queried : q[2] # "connect"

\* A connect with an address while the oracle is bound: forwarded, and the
\* original's failure came back.
C13_Witness ==
    /\ lastCall.handler = "connect"
    /\ lastCall.args = <<3, "addr", 16>>
    /\ lastCall.bound
    /\ lastCall.forwarded = <<Forward(<<3, "addr", 16>>, -1)>>
    /\ lastCall.result = -1

\* The last handler invocation asked the oracle.
Asked(h) == lastCall.handler = h /\ lastCall.queries # <<>>

\* C14 as stated: the request kinds passed by the two handlers are distinct
\* values, so queries of different origin carry different kinds.
C14_AsStated ==
    \A q1 \in queried : \A q2 \in queried :
        q1[2] # q2[2] => q1[1] # q2[1]

\* C14: each oracle query carries the target the handler was called with,
\* the request type "dns" and the handler's own libc name as origin; the
\* two handlers pass the same request type and differ in origin only.
C14_RequestDescriptor ==
    /\ Asked("gethostbyname") =>
          /\ Len(lastCall.queries) = 1
          /\ lastCall.queries[1].target = lastCall.args[1]
          /\ lastCall.queries[1].target # NULL
          /\ lastCall.queries[1].kind = "dns"
          /\ lastCall.queries[1].origin = "gethostbyname"
          /\ <<"dns", "gethostbyname">> \in queried
    /\ Asked("getaddrinfo") =>
          /\ Len(lastCall.queries) = 1
          /\ lastCall.queries[1].target = lastCall.args[1]
          /\ lastCall.queries[1].target # NULL
          /\ lastCall.queries[1].kind = "dns"
          /\ lastCall.queries[1].origin = "getaddrinfo"
          /\ <<"dns", "getaddrinfo">> \in queried
    /\ queried \subseteq {<<"dns", "gethostbyname">>, <<"dns", "getaddrinfo">>}

\* Both handlers have asked the oracle, the last one through getaddrinfo.
C14_Witness ==
    /\ queried = {<<"dns", "gethostbyname">>, <<"dns", "getaddrinfo">>}
    /\ Asked("getaddrinfo")
    /\ lastCall.queries[1].target = "ads.example"

\* The lifecycle is inside load_library_via_memfd.
InsideMemfdLoad ==
    pc \in {"memfd_open", "fstat", "memfd_create", "ashmem_open", "ashmem_ioctl",
            "ftruncate", "copy_read", "copy_write", "copy_done", "memfd_dlopen"}

\* C15: whenever the loader is not in the middle of a load attempt, the
\* source descriptor is closed and an anonymous descriptor is open if and
\* only if the module loaded from it is loaded; no failure path, unloading
\* for a missing entry point included, leaves an anonymous descriptor open.
C15_DescriptorOwnership ==
    ~InsideMemfdLoad =>
        /\ source_fd = -1
        /\ memfds = IF rust_lib_handle.via = "memfd"
                    THEN {rust_lib_handle.fd} ELSE {}
        /\ fds = memfds
        /\ stage \in {"ModuleNotFound", "SymbolMissing"} => memfds = {}

\* The state shared between the lifecycle run and the handlers.
sharedState == <<rust_lib_handle, oracleVars, trampVars, hooked>>

\* What a blocked call of handler h returns.
BlockValue(h) == IF h = "gethostbyname" THEN NULL ELSE EAI_NONAME

\* The last handler invocation is a function of its arguments, the oracle's
\* answer to its query and the trampoline's result for its call.
OutcomeIsLocal ==
    lastCall.handler # "none" =>
        /\ lastCall.bound
        /\ (lastCall.queries # <<>>) <=>
              (lastCall.handler # "connect" /\ lastCall.args[1] # NULL)
        /\ (lastCall.forwarded = <<>>) <=>
              (lastCall.queries # <<>> /\ lastCall.queries[1].answer # 0)
        /\ lastCall.forwarded # <<>> =>
              /\ lastCall.forwarded[1].args = lastCall.args
              /\ lastCall.result = lastCall.forwarded[1].ret
              /\ lastCall.via = OldOf(lastCall.handler)
        /\ lastCall.forwarded = <<>> =>
              lastCall.result = BlockValue(lastCall.handler)

\* C16: the module handle, the oracle bindings and the trampolines are
\* written only by the lifecycle run; no handler invocation, in any
\* interleaving with the run or with other invocations, writes any of
\* them, and each invocation's outcome depends only on its own arguments,
\* the oracle's answer to its query and the trampoline's result.
C16_WriteOnceSharedState ==
    /\ [][(lastCall' # lastCall \/ queried' # queried) => UNCHANGED sharedState]_vars
    /\ [][pc = "done" => UNCHANGED sharedState]_vars
    /\ [][pc' = pc => UNCHANGED sharedState]_vars
    /\ []OutcomeIsLocal

\* After the run ended Active, invocations of both enforcing handlers have
\* interleaved and the shared state is as the run left it.
C16_Witness ==
    /\ pc = "done"
    /\ stage = "Active"
    /\ queried = {<<"dns", "gethostbyname">>, <<"dns", "getaddrinfo">>}
    /\ lastCall.handler = "getaddrinfo"
    /\ lastCall.forwarded = <<>>
    /\ hooked = SymbolSet
    /\ aubo_should_block_request = BOUND
    /\ rust_lib_handle # NullHandle

\* The lifecycle is inside the copy loop of load_library_via_memfd.
InCopyLoop == pc \in {"copy_read", "copy_write"}

\* The stages in which onModuleLoaded returns.
FinalStages ==
    {"ModuleNotFound", "SymbolMissing", "OracleInitFailed", "ResolverUnavailable",
     "HooksFailed", "Active"}

\* C17: when every external call returns, onModuleLoaded finishes in Active
\* or a failed stage and stays finished, the copy loop is left whatever
\* read and write return, and one run calls aubo_initialize at most once,
\* opens the resolver at most once and makes at most one lookup and one
\* install attempt per symbol.
C17_TerminatesNoRetry ==
    /\ <>[](pc = "done" /\ stage \in FinalStages)
    /\ InCopyLoop ~> ~InCopyLoop
    /\ [](/\ calls["initialize"] <= 1
          /\ calls["newSymbolResolver"] <= 1
          /\ \A s \in SymbolSet : /\ calls[LookupCall(s)] <= 1
                                  /\ calls[HookCall(s)] <= 1)

\* The run ended after a memory-backed load, whose copy loop was left with
\* the whole file copied, with every call of the later stages made once.
C17_Witness ==
    /\ pc = "done"
    /\ stage = "HooksFailed"
    /\ rust_lib_handle.via = "memfd"
    /\ Len(attempts) = 3
    /\ calls["initialize"] = 1
    /\ calls["newSymbolResolver"] = 1
    /\ \A s \in SymbolSet : calls[LookupCall(s)] = 1

\* The last invocation of an enforcing handler got a nonzero answer.
ToldToBlock ==
    /\ lastCall.handler \in {"gethostbyname", "getaddrinfo"}
    /\ lastCall.queries # <<>>
    /\ lastCall.queries[1].answer # 0

\* C18: a hook that was installed stays installed and keeps its trampoline
\* in every later step; when the hook stage is reported as failed, the hooks
\* installed before the failure are live and their handlers still block
\* what the oracle tells them to block.
C18_HooksPermanent ==
    /\ [][\A s \in SymbolSet :
             s \in hooked => (s \in hooked' /\ OldOf(s)' = OldOf(s))]_vars
    /\ [](\A s \in hooked : OldOf(s) = Trampoline(s))
    /\ []((stage = "HooksFailed" /\ ToldToBlock) =>
             /\ lastCall.handler \in hooked
             /\ lastCall.forwarded = <<>>
             /\ lastCall.result = BlockValue(lastCall.handler))

\* The install of getaddrinfo failed after gethostbyname was hooked; the
\* run is over and gethostbyname still blocks.
C18_Witness ==
    /\ pc = "done"
    /\ stage = "HooksFailed"
    /\ hooked = {"connect", "gethostbyname"}
    /\ lookupFound = SymbolSet
    /\ old_gethostbyname = "orig_gethostbyname"
    /\ lastCall.handler = "gethostbyname"
    /\ ToldToBlock
    /\ lastCall.result = NULL

\* C19: gethostbyname called with a null name, or getaddrinfo with a null
\* node, asks the oracle nothing and goes to the trampoline with its
\* arguments as given, whatever the oracle would have answered.
C19_NullTargetForwarded ==
    (/\ lastCall.handler \in {"gethostbyname", "getaddrinfo"}
     /\ lastCall.args[1] = NULL) =>
        /\ lastCall.queries = <<>>
        /\ Len(lastCall.forwarded) = 1
        /\ lastCall.forwarded[1].args = lastCall.args
        /\ lastCall.via = Trampoline(lastCall.handler)
        /\ lastCall.result = lastCall.forwarded[1].ret

\* gethostbyname(NULL) after the run ended Active: nothing asked, the
\* original's answer returned.
C19_Witness ==
    /\ stage = "Active"
    /\ lastCall.handler = "gethostbyname"
    /\ lastCall.args = <<NULL>>
    /\ lastCall.bound
    /\ lastCall.queries = <<>>
    /\ lastCall.result = "hostent"

\* C20: when the first candidate that loads lacks an entry point, the
\* module is unloaded once, the handle is unset, no candidate after it is
\* probed or loaded, and the run ends without calling aubo_initialize.
C20_NoResumeAfterBindingFailure ==
    /\ [](stage = "SymbolMissing" =>
            /\ pc = "done"
            /\ rust_lib_handle = NullHandle
            /\ calls["dlsym"] = 3
            /\ calls["dlclose"] = 1
            /\ calls["initialize"] = 0
            /\ calls["newSymbolResolver"] = 0
            /\ hooked = {}
            /\ attempts # <<>>
            /\ attempts[Len(attempts)].outcome = "ok"
            /\ attempts[Len(attempts)].path = idx
            /\ \A i \in 1..(Len(attempts) - 1) : attempts[i].outcome = "failed"
            /\ \A p \in readable : p <= idx)
    /\ [][calls'["dlclose"] # calls["dlclose"] =>
             (stage' = "SymbolMissing" /\ pc' = "done")]_vars
    /\ [][stage = "SymbolMissing" =>
             UNCHANGED <<pc, idx, attempts, readable, loaderCalls, calls, stage>>]_vars

\* The second candidate was the first to load and lacks aubo_shutdown: it
\* was unloaded and candidates 3 and 4 were never probed.
C20_Witness ==
    /\ stage = "SymbolMissing"
    /\ pc = "done"
    /\ idx = 2
    /\ readable = {1, 2}
    /\ aubo_initialize = BOUND
    /\ aubo_shutdown = NULL
    /\ rust_lib_handle = NullHandle
====
